---- MODULE Spec2Model ----
(***************************************************************************)
(* Model of the event-stream client of mastodon-apps                       *)
(* (src/mastodon_apps/mastodon/__init__.py): the byte-to-line reassembler  *)
(* stream_iter_lines, the frame decoder stream_listen, the dispatcher      *)
(* process_message and the supervisor loop of main.                        *)
(*                                                                         *)
(* A byte string is a sequence of atoms.  An atom is either one byte that  *)
(* matters to the code ("LF", " ", ":", the non-ASCII bytes "xC3", "xA9",  *)
(* "xFF") or a run of ASCII bytes that contains none of them ("event",     *)
(* "thump", ...).  A text line is a sequence of atoms as well, non-ASCII   *)
(* bytes being replaced by the code point they decode to.                  *)
(***************************************************************************)
EXTENDS Integers, Sequences, FiniteSets, TLC

VARIABLES
    pc,          \* position of main / stream_listen / the generator
    wire,        \* bytes written by the remote, not yet returned by iter_content
    buf,         \* stream_iter_lines: buf
    lines,       \* stream_iter_lines: decoded lines of the current chunk, not yet yielded
    message,     \* stream_listen: message (the pending record)
    cur,         \* the handler invocation in progress
    sleep_secs,  \* argument of the time.sleep call in progress (0: not sleeping)
    cause,       \* how the last stream_listen call ended
    nfail,       \* consecutive stream_listen calls that ended without streaming
    raised,      \* a handler has raised on this connection
    dispatched,  \* a handler has been invoked on this connection
    recovered,   \* this connection follows a read failure of a session that had dispatched
    last,        \* what the last iteration of the for loop of stream_listen did,
                 \* and the record it handed to process_message ("none": no
                 \* iteration yet, and the record the call before left unfinished)
    input,       \* reassembler alone: the whole byte sequence
    yielded      \* reassembler alone: the lines yielded so far

streamvars == <<pc, wire, buf, lines, message, cur, sleep_secs, cause, nfail,
                raised, dispatched, recovered, last, input, yielded>>

VARIABLES
    bot,              \* which program runs: "jucika", "eightfortyseven" ("none": no whole program)
    bpc,              \* position of the program in main / run / the handler in progress
    idempotency_key,  \* self.idempotency_key
    sent,             \* the requests api() has sent so far
    lastcall,         \* the last api() call: requests it sent (and the last of them),
                      \* status answered, how it ended, and whether the same call
                      \* had been made before
    job               \* post_comic: the comic being posted; fish: the mention in hand

botvars == <<bot, bpc, idempotency_key, sent, lastcall, job>>

VARIABLES
    timeout,          \* backoff_attachment: timeout (seconds)
    elapsed,          \* backoff_attachment: datetime.now() - begin (ticks)
    wait_secs,        \* backoff_attachment: wait_secs (ticks)
    slept,            \* the time.sleep argument that preceded the last poll (ticks)
    polls,            \* polls made by this backoff_attachment call
    scenario,         \* how the polled resource answers: "any", or the "reference" scenario
    ended           \* how backoff_attachment ended ("none": it has not)

pollvars == <<timeout, elapsed, wait_secs, slept, polls, scenario, ended>>

VARIABLES
    comics,           \* self.config["comics"]
    seed,             \* self.config["seed"]
    picked            \* the results of the get_day_comic calls made so far

schedvars == <<comics, seed, picked>>

VARIABLES
    daily,            \* jucika: args.daily
    self_listen,      \* jucika: self.listen
    clock,            \* eightfortyseven: now, in seconds since 0:00 of self.today
    temps,            \* eightfortyseven: get_temps has returned in this run
    posted            \* eightfortyseven: calls of post made by this run

runvars == <<daily, self_listen, clock, temps, posted>>

others == <<botvars, pollvars, schedvars, runvars>>

vars == <<streamvars, others>>

-----------------------------------------------------------------------------
(* Bounds *)

MaxInput == 4       \* length of the byte sequence fed to the reassembler alone
MaxFails == 2       \* cap of the consecutive-failure counter
MaxDay == 3         \* last day index get_day_comic is called for

\* ticks to the second: 1.75^k seconds is a whole number of ticks up to k = 9
Scale == 4 ^ 9

\* backoff_attachment(url, timeout=300)
DefaultTimeout == 300

\* EightFortySeven.run: time.sleep(100) after a get_temps that raised
RetrySecs == 100

\* the timeouts backoff_attachment is called with
Timeouts == {0, 200, DefaultTimeout}

\* the time a request may take (ticks)
ReqTimes == {0, 2 * Scale}

\* the reference scenario: the resource is still processing until busy_until
\* seconds and ready from ready_from seconds on
Reference == [busy_until |-> 250, ready_from |-> 260]

\* the statuses of a resource that is still processing
StillProcessing == {202, 206}

-----------------------------------------------------------------------------
(* Bytes and text *)

LF == "LF"
SP == " "
COLON == ":"

Whitespace == {" ", "CR", "TAB"}
Lead2 == {"xC3"}             \* first byte of a two-byte UTF-8 sequence
Continuation == {"xA9"}      \* continuation byte 10xxxxxx
NonAscii == Lead2 \cup Continuation \cup {"xFF"}

\* code point of the two-byte sequence <<b1, b2>>
CodePoint(b1, b2) == IF b1 = "xC3" /\ b2 = "xA9" THEN "U+00E9" ELSE "U+FFFD"

RECURSIVE decode(_)
\* bytes.decode("UTF-8"), strict: [ok, text]
decode(bs) ==
    IF bs = <<>> THEN [ok |-> TRUE, text |-> <<>>]
    ELSE IF Head(bs) \notin NonAscii
         THEN LET r == decode(Tail(bs))
              IN [ok |-> r.ok, text |-> IF r.ok THEN <<Head(bs)>> \o r.text ELSE <<>>]
    ELSE IF Head(bs) \in Lead2 /\ Len(bs) >= 2 /\ bs[2] \in Continuation
         THEN LET r == decode(SubSeq(bs, 3, Len(bs)))
              IN [ok |-> r.ok,
                  text |-> IF r.ok THEN <<CodePoint(bs[1], bs[2])>> \o r.text ELSE <<>>]
    ELSE [ok |-> FALSE, text |-> <<>>]

RECURSIVE split_lf(_)
\* bytes.split(b"\n"): the pieces between the terminators, Len = number of LF + 1
split_lf(bs) ==
    IF \A i \in 1..Len(bs) : bs[i] # LF THEN <<bs>>
    ELSE LET i == CHOOSE j \in 1..Len(bs) :
                      bs[j] = LF /\ \A k \in 1..(j - 1) : bs[k] # LF
         IN <<SubSeq(bs, 1, i - 1)>> \o split_lf(SubSeq(bs, i + 1, Len(bs)))

RECURSIVE decode_all(_)
\* [line.decode("UTF-8") for line in raw]: [ok, lines]; the first failure raises
decode_all(raw) ==
    IF raw = <<>> THEN [ok |-> TRUE, lines |-> <<>>]
    ELSE LET d == decode(Head(raw))
             r == decode_all(Tail(raw))
         IN IF d.ok /\ r.ok THEN [ok |-> TRUE, lines |-> <<d.text>> \o r.lines]
            ELSE [ok |-> FALSE, lines |-> <<>>]

\* buf = raw_lines[-1]
keep_last(raw_lines) == raw_lines[Len(raw_lines)]

\* one iteration of the for loop of stream_iter_lines on the chunk buf_in:
\* the new buf, the lines it is going to yield, and whether decoding raised
iter_chunk(b, buf_in) ==
    LET nb == b \o buf_in
    IN IF \A i \in 1..Len(nb) : nb[i] # LF
       THEN [buf |-> nb, lines |-> <<>>, exc |-> "none"]
       ELSE LET raw_lines == split_lf(nb)
                d == decode_all(SubSeq(raw_lines, 1, Len(raw_lines) - 1))
            IN [buf |-> keep_last(raw_lines),
                lines |-> d.lines,
                exc |-> IF d.ok THEN "none" ELSE "UnicodeDecodeError"]

-----------------------------------------------------------------------------
(* The reassembler alone: a byte sequence is cut into chunks at arbitrary    *)
(* places and the generator is drained by a consumer that only collects.     *)

IterBytes == {LF, "a", "xC3", "xA9"}

RECURSIVE SeqsUpTo(_, _)
SeqsUpTo(S, n) ==
    IF n = 0 THEN {<<>>}
    ELSE LET shorter == SeqsUpTo(S, n - 1)
         IN shorter \cup {Append(s, x) : s \in {t \in shorter : Len(t) = n - 1}, x \in S}

NoData == [kind |-> "none", type |-> "none"]
NoCall == [h |-> "none", data |-> NoData]
EmptyMessage == <<>>
Did(what, rec) == [did |-> what, rec |-> rec]

\* idempotency_key = "rf_mastodon_apps", the class attribute; the key is a
\* sequence of the strings it is concatenated from
Secret0 == <<"rf_mastodon_apps">>

NoRequest == [url |-> "", method |-> "", data |-> [none |-> TRUE, items |-> <<>>],
              files |-> <<>>, get_result |-> FALSE, key |-> <<>>, body |-> <<>>]
NoApiCall == [n |-> 0, status |-> 0, json |-> FALSE, get_result |-> FALSE, out |-> "none",
              value |-> "none", again |-> FALSE, req |-> NoRequest]
NoJob == [comic |-> 0, reply |-> <<>>, prefix |-> <<>>, visibility |-> <<>>]
NoSeed == [kind |-> "absent", v |-> 0]

\* no whole program runs
NoProgram ==
    /\ bot = "none"
    /\ idempotency_key = Secret0
    /\ sent = {}
    /\ lastcall = NoApiCall
    /\ job = NoJob

\* no backoff_attachment call has been made
NoBackoff ==
    /\ timeout = 0
    /\ elapsed = 0
    /\ wait_secs = 0
    /\ slept = 0
    /\ polls = 0
    /\ scenario = "any"
    /\ ended = "none"

\* no comics are configured
NoSchedule ==
    /\ comics = <<>>
    /\ seed = NoSeed
    /\ picked = {}

\* no program has been started
NoRun ==
    /\ daily = FALSE
    /\ self_listen = TRUE
    /\ clock = 0
    /\ temps = FALSE
    /\ posted = 0

InitCommon ==
    /\ buf = <<>>
    /\ lines = <<>>
    /\ message = EmptyMessage
    /\ cur = NoCall
    /\ sleep_secs = 0
    /\ cause = "none"
    /\ nfail = 0
    /\ raised = FALSE
    /\ dispatched = FALSE
    /\ recovered = FALSE
    /\ last = Did("none", EmptyMessage)
    /\ yielded = <<>>

InitLines ==
    /\ InitCommon
    /\ NoProgram /\ bpc = "off" /\ NoBackoff /\ NoSchedule /\ NoRun
    /\ pc = "iter"
    /\ input \in SeqsUpTo(IterBytes, MaxInput)
    /\ wire = input

\* for buf_in in r.iter_content(...): the next chunk is the first n bytes of the wire
Feed(n) ==
    /\ pc = "iter"
    /\ lines = <<>>
    /\ n \in 1..Len(wire)
    /\ LET r == iter_chunk(buf, SubSeq(wire, 1, n))
       IN /\ buf' = r.buf
          /\ lines' = r.lines
          /\ pc' = IF r.exc = "none" THEN "iter" ELSE "iter_raised"
    /\ wire' = SubSeq(wire, n + 1, Len(wire))
    /\ UNCHANGED <<others, message, cur, sleep_secs, cause, nfail, raised, dispatched,
                   recovered, last, input, yielded>>

\* yield line
Yield ==
    /\ pc = "iter"
    /\ lines # <<>>
    /\ yielded' = Append(yielded, Head(lines))
    /\ lines' = Tail(lines)
    /\ UNCHANGED <<others, pc, wire, buf, message, cur, sleep_secs, cause, nfail, raised,
                   dispatched, recovered, last, input>>

\* iter_content is exhausted: the generator returns
Exhausted ==
    /\ pc = "iter"
    /\ lines = <<>>
    /\ wire = <<>>
    /\ pc' = "iter_done"
    /\ UNCHANGED <<others, wire, buf, lines, message, cur, sleep_secs, cause, nfail, raised,
                   dispatched, recovered, last, input, yielded>>

NextLines == (\E n \in 1..Len(wire) : Feed(n)) \/ Yield \/ Exhausted

SpecLines == InitLines /\ [][NextLines]_vars

-----------------------------------------------------------------------------
(* The frame decoder and the dispatcher *)

\* a decoder without the comment rule
is_comment_never(line) == FALSE

\* line.startswith(":")
is_comment(line) == line # <<>> /\ Head(line) = COLON

RECURSIVE lstrip(_)
lstrip(s) == IF s # <<>> /\ Head(s) \in Whitespace THEN lstrip(Tail(s)) ELSE s

RECURSIVE rstrip(_)
rstrip(s) ==
    IF s # <<>> /\ s[Len(s)] \in Whitespace THEN rstrip(SubSeq(s, 1, Len(s) - 1)) ELSE s

\* str.strip()
strip(s) == rstrip(lstrip(s))

\* the places where the separator ": " starts
sep_at(line) == {i \in 1..(Len(line) - 1) : line[i] = COLON /\ line[i + 1] = SP}

\* line.rsplit(": ", 1): the split is made at the last separator
split_sep_last(line) ==
    IF sep_at(line) = {} THEN <<line>>
    ELSE LET i == CHOOSE j \in sep_at(line) : \A k \in sep_at(line) : j >= k
         IN <<SubSeq(line, 1, i - 1), SubSeq(line, i + 2, Len(line))>>

\* line.split(": ", 1): one piece when the separator is absent, else two
split_sep(line) ==
    IF sep_at(line) = {} THEN <<line>>
    ELSE LET i == CHOOSE j \in sep_at(line) : \A k \in sep_at(line) : j <= k
         IN <<SubSeq(line, 1, i - 1), SubSeq(line, i + 2, Len(line))>>

\* message[k] = v
set_item(m, k, v) == [x \in (DOMAIN m) \cup {k} |-> IF x = k THEN v ELSE m[x]]

\* lines 83-89 of stream_listen on one line: what the line is and the new message
listen_line(m, line) ==
    IF is_comment(line) THEN [kind |-> "comment", message |-> m]
    ELSE LET l == strip(line)
         IN IF l # <<>>
            THEN LET kv == split_sep(l)
                 IN IF Len(kv) = 2
                    THEN [kind |-> "field", message |-> set_item(m, kv[1], kv[2])]
                    ELSE [kind |-> "ValueError", message |-> m]
            ELSE [kind |-> "blank", message |-> m]

K_event == <<"event">>
K_data == <<"data">>
V_notification == <<"notification">>
V_update == <<"update">>
J_mention == <<"{\"type\"", ":", " ", "\"mention\"}">>
J_follow == <<"{\"type\"", ":", " ", "\"follow\"}">>
J_list == <<"[]">>

\* json.loads on the documents of the model: [ok, val]
json_loads(text) ==
    LET t == strip(text)
    IN IF t = J_mention THEN [ok |-> TRUE, val |-> [kind |-> "dict", type |-> "mention"]]
       ELSE IF t = J_follow THEN [ok |-> TRUE, val |-> [kind |-> "dict", type |-> "follow"]]
       ELSE IF t = J_list THEN [ok |-> TRUE, val |-> [kind |-> "list", type |-> "none"]]
       ELSE [ok |-> FALSE, val |-> NoData]

\* a dispatcher that does not look at the type of a notification
process_message_anytype(m) ==
    IF ~(K_event \in DOMAIN m /\ m[K_event] \in {V_notification, V_update})
    THEN [h |-> "none", data |-> NoData, exc |-> "none"]
    ELSE IF K_data \notin DOMAIN m
    THEN [h |-> "none", data |-> NoData, exc |-> "none"]
    ELSE LET j == json_loads(m[K_data])
         IN IF ~j.ok
            THEN [h |-> "none", data |-> NoData, exc |-> "none"]
            ELSE IF m[K_event] = V_notification
            THEN [h |-> "process_mention", data |-> j.val, exc |-> "none"]
            ELSE [h |-> "process_update", data |-> j.val, exc |-> "none"]

\* a dispatcher without the try/except around json.loads
process_message_nocatch(m) ==
    IF ~(K_event \in DOMAIN m /\ m[K_event] \in {V_notification, V_update})
    THEN [h |-> "none", data |-> NoData, exc |-> "none"]
    ELSE IF K_data \notin DOMAIN m
    THEN [h |-> "none", data |-> NoData, exc |-> "TypeError"]
    ELSE LET j == json_loads(m[K_data])
         IN IF ~j.ok
            THEN [h |-> "none", data |-> NoData, exc |-> "JSONDecodeError"]
            ELSE IF m[K_event] = V_notification
            THEN IF j.val.kind # "dict"
                 THEN [h |-> "none", data |-> NoData, exc |-> "AttributeError"]
                 ELSE IF j.val.type = "mention"
                      THEN [h |-> "process_mention", data |-> j.val, exc |-> "none"]
                      ELSE [h |-> "none", data |-> NoData, exc |-> "none"]
            ELSE [h |-> "process_update", data |-> j.val, exc |-> "none"]

\* process_message: the handler it invokes with its argument, and the exception
\* that leaves it before any handler is invoked
process_message(m) ==
    IF ~(K_event \in DOMAIN m /\ m[K_event] \in {V_notification, V_update})
    THEN [h |-> "none", data |-> NoData, exc |-> "none"]
    ELSE IF K_data \notin DOMAIN m                        \* json.loads(None): TypeError
    THEN [h |-> "none", data |-> NoData, exc |-> "none"]
    ELSE LET j == json_loads(m[K_data])
         IN IF ~j.ok                                      \* JSONDecodeError
            THEN [h |-> "none", data |-> NoData, exc |-> "none"]
            ELSE IF m[K_event] = V_notification
            THEN IF j.val.kind # "dict"                   \* data.get
                 THEN [h |-> "none", data |-> NoData, exc |-> "AttributeError"]
                 ELSE IF j.val.type = "mention"
                      THEN [h |-> "process_mention", data |-> j.val, exc |-> "none"]
                      ELSE [h |-> "none", data |-> NoData, exc |-> "none"]
            ELSE [h |-> "process_update", data |-> j.val, exc |-> "none"]

\* a dispatcher that starts the handler and does not wait for it
call_handler_async(h) == "streaming"

\* self.process_mention(data) / self.process_update(data): a plain call, the
\* caller is in the handler until it returns or raises
call_handler(h) == "handler"

\* a stream_listen without the try/except around process_message
listen_catch_propagate(exc) == IF exc = "none" THEN "continue" ELSE "raise"

\* try: self.process_message(message) / except Exception: what stream_listen
\* does when the call ends with exc ("none": it returned)
listen_catch(exc) == "continue"

\* time.sleep(30)
BackoffSecs == 30

\* a loop that reconnects at once after a chunked-encoding error
main_after_nosleep(e) ==
    IF e = "ChunkedEncodingError" THEN [pc |-> "connect", secs |-> 0]
    ELSE [pc |-> "sleep", secs |-> BackoffSecs]

\* a loop without the except clause for the chunked-encoding error
main_after_exit(e) ==
    IF e = "ChunkedEncodingError" THEN [pc |-> "exit", secs |-> 0]
    ELSE [pc |-> "sleep", secs |-> BackoffSecs]

\* the loop of main: where it goes and how long it sleeps when stream_listen
\* ends with e ("return": it returned)
main_after(e) ==
    IF e = "ChunkedEncodingError" THEN [pc |-> "sleep", secs |-> BackoffSecs]
    ELSE IF e # "return" THEN [pc |-> "sleep", secs |-> BackoffSecs]
    ELSE [pc |-> "sleep", secs |-> BackoffSecs]

-----------------------------------------------------------------------------
(* The supervisor loop with the pipeline *)

\* the lines the remote may write
Menu == {
    <<"event", ":", " ", "notification">>,
    <<"event", ":", " ", "update">>,
    <<"event", ":", " ", "delete">>,
    <<"event", ":", " ", "update", " ">>,
    <<"data", ":", " ">> \o J_mention,
    <<"data", ":", " ">> \o J_follow,
    <<"data", ":", " ">> \o J_list,
    <<"data", ":", " ", "xC3", "xA9">>,
    <<"data", ":", " ">>,
    <<":", "thump">>,
    <<"thump">>,
    <<"xFF">>,
    <<>> }

\* the ways a connection attempt and a read of the stream fail
ConnectFailures == {"HTTPError", "ConnectionError"}
ReadFailures == {"ChunkedEncodingError", "ContentDecodingError"}

Init ==
    /\ InitCommon
    /\ NoProgram /\ bpc = "off" /\ NoBackoff /\ NoSchedule /\ NoRun
    /\ pc = "connect"
    /\ wire = <<>>
    /\ input = <<>>

\* a reassembler that keeps its buffer from one call to the next
iter_begin_keep(old_buf) == old_buf

\* stream_iter_lines: buf = b"", a local of every new generator
iter_begin(old_buf) == <<>>

\* stream_listen ends with e: the except clauses and the sleep of main
EndListen(e) ==
    /\ pc' = main_after(e).pc
    /\ sleep_secs' = IF main_after(e).pc = "sleep" THEN main_after(e).secs ELSE 0
    /\ cause' = e
    /\ wire' = <<>>

\* lines 75-81: message = {}, the GET and raise_for_status
Connect(outcome) ==
    /\ pc = "connect"
    /\ message' = EmptyMessage
    /\ IF outcome = "ok"
       THEN /\ pc' = "streaming"
            /\ buf' = iter_begin(buf)
            /\ lines' = <<>>
            /\ wire' = <<>>
            /\ cause' = "none"
            /\ nfail' = 0
            /\ raised' = FALSE
            /\ dispatched' = FALSE
            /\ recovered' = (dispatched /\ cause \in ReadFailures)
            /\ last' = Did("none", message)
            /\ UNCHANGED <<cur, sleep_secs>>
       ELSE /\ EndListen(outcome)
            /\ nfail' = IF nfail < MaxFails THEN nfail + 1 ELSE nfail
            /\ UNCHANGED <<buf, lines, cur, raised, dispatched, recovered, last>>
    /\ UNCHANGED <<others, input, yielded>>

\* the remote writes its next line; it writes line by line, the next one once
\* the previous one has left the wire
SendLine(l) ==
    /\ pc \in {"streaming", "handler"}
    /\ wire = <<>>
    /\ wire' = wire \o l \o <<LF>>
    /\ UNCHANGED <<others, pc, buf, lines, message, cur, sleep_secs, cause, nfail, raised,
                   dispatched, recovered, last, input, yielded>>

\* lines 65-71: iter_content returns the first n bytes of the wire
RecvChunk(n) ==
    /\ pc = "streaming"
    /\ lines = <<>>
    /\ n \in 1..Len(wire)
    /\ LET r == iter_chunk(buf, SubSeq(wire, 1, n))
       IN /\ buf' = r.buf
          /\ IF r.exc = "none"
             THEN /\ lines' = r.lines
                  /\ wire' = SubSeq(wire, n + 1, Len(wire))
                  /\ UNCHANGED <<pc, sleep_secs, cause>>
             ELSE /\ EndListen(r.exc)
                  /\ UNCHANGED lines
    /\ UNCHANGED <<others, message, cur, nfail, raised, dispatched, recovered, last,
                   input, yielded>>

\* lines 82-94: the body of the for loop on the next yielded line
ProcessLine ==
    /\ pc = "streaming"
    /\ lines # <<>>
    /\ lines' = Tail(lines)
    /\ LET r == listen_line(message, Head(lines))
       IN CASE r.kind = "comment" ->
                 /\ last' = Did("comment", EmptyMessage)
                 /\ UNCHANGED <<pc, wire, message, cur, sleep_secs, cause, raised, dispatched>>
            [] r.kind = "field" ->
                 /\ message' = r.message
                 /\ last' = Did("field", EmptyMessage)
                 /\ UNCHANGED <<pc, wire, cur, sleep_secs, cause, raised, dispatched>>
            [] r.kind = "ValueError" ->
                 /\ EndListen("ValueError")
                 /\ last' = Did("ValueError", EmptyMessage)
                 /\ UNCHANGED <<message, cur, raised, dispatched>>
            [] r.kind = "blank" ->
                 LET pm == process_message(message)
                 IN IF pm.h # "none"
                    THEN /\ pc' = call_handler(pm.h)
                         /\ cur' = [h |-> pm.h, data |-> pm.data]
                         /\ dispatched' = TRUE
                         /\ last' = Did("invoked", message)
                         /\ UNCHANGED <<wire, message, sleep_secs, cause, raised>>
                    ELSE /\ last' = Did(IF pm.exc = "none" THEN "dropped" ELSE "pm_raised", message)
                         /\ IF listen_catch(pm.exc) = "continue"
                            THEN /\ message' = EmptyMessage
                                 /\ UNCHANGED <<pc, wire, sleep_secs, cause>>
                            ELSE /\ EndListen(pm.exc)
                                 /\ UNCHANGED message
                         /\ UNCHANGED <<cur, raised, dispatched>>
    /\ UNCHANGED <<others, buf, nfail, recovered, input, yielded>>

\* the handler returns (out = "none") or raises
HandlerEnd(out) ==
    /\ pc = "handler"
    /\ cur' = NoCall
    /\ last' = Did(IF out = "none" THEN "handled" ELSE "raised", last.rec)
    /\ raised' = (raised \/ out # "none")
    /\ IF listen_catch(out) = "continue"
       THEN /\ pc' = "streaming"
            /\ message' = EmptyMessage
            /\ UNCHANGED <<wire, sleep_secs, cause>>
       ELSE /\ EndListen(out)
            /\ UNCHANGED message
    /\ UNCHANGED <<others, buf, lines, nfail, dispatched, recovered, input, yielded>>

\* iter_content raises
ReadError(e) ==
    /\ pc = "streaming"
    /\ lines = <<>>
    /\ EndListen(e)
    /\ UNCHANGED <<others, buf, lines, message, cur, nfail, raised, dispatched, recovered,
                   last, input, yielded>>

\* the remote closes the stream: iter_content is exhausted, stream_listen returns
RemoteClose ==
    /\ pc = "streaming"
    /\ lines = <<>>
    /\ wire = <<>>
    /\ EndListen("return")
    /\ UNCHANGED <<others, buf, lines, message, cur, nfail, raised, dispatched, recovered,
                   last, input, yielded>>

\* time.sleep(30) returns
SleepDone ==
    /\ pc = "sleep"
    /\ pc' = "connect"
    /\ sleep_secs' = 0
    /\ UNCHANGED <<others, wire, buf, lines, message, cur, cause, nfail, raised, dispatched,
                   recovered, last, input, yielded>>

ConnectOK == Connect("ok")
ConnectFail == \E e \in ConnectFailures : Connect(e)

Next ==
    \/ ConnectOK
    \/ ConnectFail
    \/ \E l \in Menu : SendLine(l)
    \/ \E n \in 1..Len(wire) : RecvChunk(n)
    \/ ProcessLine
    \/ \E out \in {"none", "HandlerError"} : HandlerEnd(out)
    \/ \E e \in ReadFailures : ReadError(e)
    \/ RemoteClose
    \/ SleepDone

Spec == Init /\ [][Next]_vars

\* the sleep ends, and a connection attempt that is made again and again succeeds
LiveSpec == Spec /\ WF_vars(SleepDone) /\ SF_vars(ConnectOK)

-----------------------------------------------------------------------------
(* The command issuer api() and the programs that call it                  *)
(* (mastodon/__init__.py, jucika.py, eightfortyseven.py).                  *)
(*                                                                         *)
(* A body is a record: none says the argument is None, items are its       *)
(* (name, value) pairs; names and values are sequences of atoms.  A time   *)
(* is a number of ticks, Scale ticks to the second, so that every          *)
(* wait_secs of backoff_attachment is a whole number of ticks.             *)

None == [none |-> TRUE, items |-> <<>>]
Body(items) == [none |-> FALSE, items |-> items]
NoFiles == <<>>

\* the statuses the remote may answer a request with
Statuses == {200, 202, 206, 304, 404, 503}

\* an answer of the remote: its status, and whether its body is a JSON document
Replies == [status : Statuses, json : BOOLEAN]

\* a key that covers the attachments as well
idempotency_id_with_files(self_key, url, method, data, files, get_result) ==
    <<self_key, url, method, data, files>>

\* a key that covers every argument of the call
idempotency_id_whole_call(self_key, url, method, data, files, get_result) ==
    <<self_key, url, method, data, files, get_result>>

\* idempotency_id: HMAC-SHA256 of pickle.dumps((url, method, data)) under
\* self.idempotency_key, base64-encoded.  The keyed hash is the tuple of what
\* it is computed from: equal inputs give equal keys, different inputs
\* different keys.
idempotency_id(self_key, url, method, data, files, get_result) ==
    <<self_key, url, method, data>>

\* a raise_for_status that raises on server errors only
raise_for_status_5xx(status_code) == 500 <= status_code /\ status_code < 600

\* r.raise_for_status(): HTTPError for a 4xx or 5xx status, nothing otherwise
raise_for_status(status_code) == 400 <= status_code /\ status_code < 600

\* if data: / if files:
truthy_data(data) == ~data.none /\ data.items # <<>>

\* api(url, method, data, files, get_result), the remote answering the request
\* with answer: the requests sent and how the call ends (r.json() raises when
\* the body is not a JSON document)
api(self_key, url, method, data, files, get_result, answer) ==
    LET id == idempotency_id(self_key, url, method, data, files, get_result)
        request == [url |-> url, method |-> method, data |-> data, files |-> files,
                    get_result |-> get_result, key |-> id,
                    body |-> IF truthy_data(data) THEN data.items ELSE <<>>]
        out == IF raise_for_status(answer.status) THEN "HTTPError"
               ELSE IF ~get_result /\ ~answer.json THEN "JSONDecodeError"
               ELSE "return"
    IN  [requests |-> <<request>>,
         status |-> answer.status,
         json |-> answer.json,
         get_result |-> get_result,
         out |-> out,
         value |-> IF out # "return" THEN "none" ELSE IF get_result THEN "response" ELSE "json"]

\* the effect of an api() call on the record of what was sent
Called(r) ==
    /\ sent' = sent \cup {r.requests[i] : i \in 1..Len(r.requests)}
    /\ lastcall' = [n |-> Len(r.requests), status |-> r.status, json |-> r.json,
                    get_result |-> r.get_result, out |-> r.out, value |-> r.value,
                    again |-> \E i \in 1..Len(r.requests) : r.requests[i] \in sent,
                    req |-> r.requests[Len(r.requests)]]

InstanceUrl == "/api/v2/instance"
VerifyUrl == "/api/v1/accounts/verify_credentials"
MediaUrl == "/api/v2/media"
AttachmentUrl == "/api/v1/media/a1"
StatusesUrl == "/api/v1/statuses"
FavouriteUrl == "/api/v1/statuses/m1/favourite"

\* config["comics"]: two comics without a description, one with
AllComics == <<
    [filename |-> "01.png", title |-> <<"one">>, description |-> <<>>, sensitive |-> FALSE],
    [filename |-> "02.png", title |-> <<>>, description |-> <<>>, sensitive |-> FALSE],
    [filename |-> "03.png", title |-> <<"three">>, description |-> <<"a", " ", "dog">>,
     sensitive |-> TRUE] >>

Bots == {"jucika", "eightfortyseven"}

\* Jucika().main() listens; bot.main(listen=False) of eightfortyseven does not
listen_arg(b) == b # "eightfortyseven"

\* an exception leaves the handler: the except clause of stream_listen
handler_raised(exc) == IF listen_catch(exc) = "continue" THEN "listening" ELSE "crashed"

InitBot ==
    /\ InitCommon /\ pc = "off" /\ wire = <<>> /\ input = <<>>
    /\ NoBackoff
    /\ bot \in Bots
    /\ daily \in (IF bot = "jucika" THEN BOOLEAN ELSE {FALSE})
    /\ self_listen = TRUE
    /\ clock = 0
    /\ temps = FALSE
    /\ posted = 0
    /\ bpc = "start"
    /\ idempotency_key = Secret0
    /\ sent = {}
    /\ lastcall = NoApiCall
    /\ job = NoJob
    /\ comics = SubSeq(AllComics, 1, 2)
    /\ seed = NoSeed
    /\ picked = {}

\* main: self.server = self.api(".../api/v2/instance"); an exception leaves main
MainInstance(answer) ==
    /\ bpc = "start"
    /\ LET r == api(idempotency_key, InstanceUrl, "GET", None, NoFiles, FALSE, answer)
       IN  /\ Called(r)
           /\ bpc' = IF r.out = "return" THEN "verify" ELSE "crashed"
    /\ UNCHANGED <<streamvars, pollvars, schedvars, runvars, bot, idempotency_key, job>>

\* setup(): Jucika sets self.listen = False when args.daily is set, the other
\* programs do nothing; the value of self.listen after it
setup(b, args_daily, listen_attr) ==
    IF b = "jucika" /\ args_daily THEN FALSE ELSE listen_attr

\* main, if not listen: return: the test is made on the parameter listen
main_listens(listen_param, listen_attr) == listen_param

\* what follows the return of bot.main(): eightfortyseven calls bot.run(), the
\* main() of the other programs returns
after_main(b) == IF b = "eightfortyseven" THEN "run" ELSE "returned"

\* main: self.me = self.api(".../verify_credentials"); self.setup();
\* if not listen: return; the while loop
MainVerify(answer) ==
    /\ bpc = "verify"
    /\ LET r == api(idempotency_key, VerifyUrl, "GET", None, NoFiles, FALSE, answer)
           attr == setup(bot, daily, self_listen)
       IN  /\ Called(r)
           /\ IF r.out # "return"
              THEN /\ bpc' = "crashed"
                   /\ UNCHANGED self_listen
              ELSE /\ self_listen' = attr
                   /\ bpc' = IF main_listens(listen_arg(bot), attr) THEN "listening"
                             ELSE after_main(bot)
    /\ UNCHANGED <<streamvars, pollvars, schedvars, bot, idempotency_key, job,
                   daily, clock, temps, posted>>

\* post_comic: data of the media upload
upload_data(comic) ==
    Body(IF comic.description # <<>> THEN << <<<<"description">>, comic.description>> >>
         ELSE <<>>)

\* post_comic: data of the status
status_data(j) ==
    LET c == comics[j.comic]
        status == strip(IF j.prefix # <<>> THEN j.prefix \o <<SP>> \o c.title ELSE c.title)
    IN  Body(<< <<<<"media_ids[]">>, <<"a1">>>>,
                <<<<"sensitive">>, IF c.sensitive THEN <<"true">> ELSE <<"false">>>>,
                <<<<"visibility">>, j.visibility>> >>
             \o (IF status # <<>> THEN << <<<<"status">>, status>> >> ELSE <<>>)
             \o (IF j.reply # <<>> THEN << <<<<"in_reply_to_id">>, j.reply>> >> ELSE <<>>))

\* backoff_attachment: begin = now(); wait_secs = 1
BackoffBegin(t) ==
    /\ timeout' = t
    /\ elapsed' = 0
    /\ wait_secs' = Scale
    /\ slept' = 0
    /\ polls' = 0
    /\ ended' = "none"
    /\ UNCHANGED scenario

\* Jucika.process_mention of a mention that asks for a comic ("random") or
\* thanks the bot ("thanks"); post_comic up to j = res.json() of the media upload
JucikaMention(kind, i, answer) ==
    /\ bot = "jucika"
    /\ bpc = "listening"
    /\ IF kind = "random"
       THEN LET c == comics[i]
                r == api(idempotency_key, MediaUrl, "POST", upload_data(c),
                         <<c.filename>>, TRUE, answer)
                j == [comic |-> i, reply |-> <<"m1">>, prefix |-> <<"@alice">>,
                      visibility |-> <<"unlisted">>]
            IN  /\ Called(r)
                /\ IF r.out # "return"
                   THEN /\ bpc' = handler_raised(r.out)
                        /\ UNCHANGED <<job, pollvars>>
                   ELSE IF ~r.json
                   THEN /\ bpc' = handler_raised("JSONDecodeError")
                        /\ UNCHANGED <<job, pollvars>>
                   ELSE IF r.status = 202
                   THEN /\ bpc' = "backoff"
                        /\ job' = j
                        /\ BackoffBegin(DefaultTimeout)
                   ELSE /\ bpc' = "post_status"
                        /\ job' = j
                        /\ UNCHANGED pollvars
       ELSE LET r == api(idempotency_key, FavouriteUrl, "POST", None, NoFiles, FALSE, answer)
            IN  /\ Called(r)
                /\ bpc' = IF r.out = "return" THEN "listening" ELSE handler_raised(r.out)
                /\ UNCHANGED <<job, pollvars>>
    /\ UNCHANGED <<streamvars, schedvars, runvars, bot, idempotency_key>>

\* the statuses the polled resource may answer a request made at time t with
Answers(t) ==
    IF scenario = "any" THEN Statuses
    ELSE IF t <= Reference.busy_until * Scale THEN StillProcessing
    ELSE IF t >= Reference.ready_from * Scale THEN {200}
    ELSE StillProcessing \cup {200}

\* a backoff that doubles the wait
next_wait_double(w) == w * 2

\* a backoff that never waits longer than a minute
next_wait_capped(w) == IF (w * 7) \div 4 > 60 * Scale THEN 60 * Scale ELSE (w * 7) \div 4

\* wait_secs *= 1.75
next_wait(w) == (w * 7) \div 4

\* backoff_attachment: what follows the answer to a poll
after_poll(api_out, status_code, since_begin, limit) ==
    IF api_out # "return" THEN api_out
    ELSE IF status_code = 200 THEN "returned"
    ELSE IF since_begin >= limit * Scale THEN "TimeoutError"
    ELSE "again"

\* one iteration of the while loop of backoff_attachment: the sleep, the
\* request (it takes dur ticks), and what follows its answer
Poll(answer, dur) ==
    /\ bpc = "backoff"
    /\ answer.status \in Answers(elapsed + wait_secs)
    /\ dur \in (IF scenario = "any" THEN ReqTimes ELSE {0})
    /\ LET r == api(idempotency_key, AttachmentUrl, "GET", None, NoFiles, TRUE, answer)
           now == elapsed + wait_secs + dur
           then == after_poll(r.out, r.status, now, timeout)
       IN  /\ Called(r)
           /\ IF then = "again"
              THEN /\ wait_secs' = next_wait(wait_secs)
                   /\ slept' = wait_secs
                   /\ polls' = polls + 1
                   /\ elapsed' = now
                   /\ UNCHANGED <<ended, bpc, job, timeout>>
              ELSE IF bot = "none"
              THEN /\ ended' = then
                   /\ slept' = wait_secs
                   /\ polls' = polls + 1
                   /\ elapsed' = now
                   /\ bpc' = "done"
                   /\ UNCHANGED <<wait_secs, job, timeout>>
              ELSE \* back in post_comic: the locals of the call are gone
                   /\ timeout' = 0 /\ elapsed' = 0 /\ wait_secs' = 0 /\ slept' = 0
                   /\ polls' = 0 /\ ended' = "none"
                   /\ bpc' = IF then = "returned" THEN "post_status"
                             ELSE handler_raised(then)
                   /\ job' = IF then = "returned" THEN job ELSE NoJob
    /\ UNCHANGED <<streamvars, schedvars, runvars, bot, idempotency_key, scenario>>

\* post_comic after the upload: the status
PostStatus(answer) ==
    /\ bpc = "post_status"
    /\ LET r == api(idempotency_key, StatusesUrl, "POST", status_data(job), NoFiles,
                    FALSE, answer)
       IN  /\ Called(r)
           /\ bpc' = IF r.out = "return" THEN "listening" ELSE handler_raised(r.out)
    /\ job' = NoJob
    /\ UNCHANGED <<streamvars, pollvars, schedvars, runvars, bot, idempotency_key>>

\* hm = (8, 47), t_847, t_848 and t_prep, in seconds since 0:00 of self.today
T847 == 8 * 3600 + 47 * 60
T848 == T847 + 60
Tprep == T847 - 15 * 60
OneDay == 24 * 3600

\* the times of day run may start at, and the time get_temps may take
Starts == {0, Tprep - 1, Tprep, T847 - 130, T847, T847 + 30, T848, T848 + 1, 20 * 3600}
TempsTimes == {0, 20}

\* self.today.strftime("_%Y-%m-%d"): today, or tomorrow when it is past 8:48
Dates == {"_2024-05-01", "_2024-05-02"}

\* a wait that is left out
sleep_until_skipped(now, t) == now

\* if now < t: time.sleep((t - now).total_seconds()): the time after it
sleep_until(now, t) == IF now < t THEN t ELSE now

\* EightFortySeven.run up to the prep wait, started at second start of the day:
\* the target day is chosen and appended to idempotency_key
RunBegin(start) ==
    /\ bot = "eightfortyseven"
    /\ bpc = "run"
    /\ LET late == start > T848
           now == IF late THEN start - OneDay ELSE start
           d == IF late THEN "_2024-05-02" ELSE "_2024-05-01"
       IN  /\ idempotency_key' = Append(idempotency_key, d)
           /\ clock' = sleep_until(now, Tprep)
    /\ bpc' = "temps"
    /\ UNCHANGED <<streamvars, pollvars, schedvars, bot, sent, lastcall, job,
                   daily, self_listen, temps, posted>>

\* EightFortySeven.run, one iteration of the while loop: past 8:48 run returns;
\* else get_temps takes dur seconds and raises ("error": sleep 100 s and try
\* again) or returns ("ok": wait until 8:47)
GetTemps(res, dur) ==
    /\ bpc = "temps"
    /\ IF clock > T848
       THEN /\ bpc' = "returned"
            /\ UNCHANGED <<clock, temps>>
       ELSE IF res = "error"
       THEN /\ clock' = clock + dur + RetrySecs
            /\ UNCHANGED <<bpc, temps>>
       ELSE /\ temps' = TRUE
            /\ clock' = sleep_until(clock + dur, T847)
            /\ bpc' = "post"
    /\ UNCHANGED <<streamvars, pollvars, schedvars, bot, idempotency_key, sent, lastcall, job,
                   daily, self_listen, posted>>

post_data ==
    Body(<< <<<<"status">>, <<"The time is 8:47 AM.">>>>, <<<<"visibility">>, <<"public">>>> >>)

\* EightFortySeven.post, the last call of run: an exception leaves run and main()
Post(answer) ==
    /\ bpc = "post"
    /\ LET r == api(idempotency_key, StatusesUrl, "POST", post_data, NoFiles, FALSE, answer)
       IN  /\ Called(r)
           /\ bpc' = IF r.out = "return" THEN "returned" ELSE "crashed"
    /\ posted' = posted + 1
    /\ UNCHANGED <<streamvars, pollvars, schedvars, bot, idempotency_key, job,
                   daily, self_listen, clock, temps>>

\* the mentions fish may receive: the text of the status, its visibility, and
\* what it replies to ("none": it is no reply; "me": a status of the bot)
FishTexts == { <<"@fishbot", " ", "Fish", "!">>,
               <<"@fishbot", " ", ".", "i will">>,
               <<"@fishbot", " ", "fish", " ", "sticks">> }
FishMentions == [text : FishTexts, visibility : {"public", "private", "direct"},
                 reply_to : {"none", "me", "other"}]

is_user(a) == a \in {"@fishbot", "@alice"}
lower(a) == IF a = "Fish" THEN "fish" ELSE a

\* re_strip_users.sub("", text): the leading user names, each with its spaces
RECURSIVE strip_users(_)
strip_users(t) ==
    IF Len(t) >= 2 /\ is_user(t[1]) /\ t[2] = SP
    THEN LET rest == SubSeq(t, 3, Len(t))
             RECURSIVE spaces(_)
             spaces(x) == IF x # <<>> /\ Head(x) = SP THEN spaces(Tail(x)) ELSE x
         IN  strip_users(spaces(rest))
    ELSE t

\* re_strip_dots.sub("", text): the leading dots and spaces
RECURSIVE strip_dots(_)
strip_dots(t) == IF t # <<>> /\ Head(t) \in {".", SP} THEN strip_dots(Tail(t)) ELSE t

\* post_text of process_mention
post_text(text) == strip(strip_dots(strip(strip_users(strip(text)))))

\* re_fish.search / re_iwill.search: the word, then nothing but . ? !
re_word(word, t) ==
    t # <<>> /\ lower(t[1]) = word /\ \A i \in 2..Len(t) : t[i] \in {".", "?", "!"}
re_fish(t) == re_word("fish", t)
re_iwill(t) == re_word("i will", t)

\* a reply with the visibility of the mention
reply_visibility_same(v) == v

\* visibility of the reply
reply_visibility(v) == IF v = "public" THEN "unlisted" ELSE v

fish_reply_data(m) ==
    Body(<< <<<<"status">>, <<"@alice", " ", "Today's fish is trout a la creme.">>>>,
            <<<<"in_reply_to_id">>, <<"m1">>>>,
            <<<<"visibility">>, <<reply_visibility(m.visibility)>>>> >>)

\* Fish.process_mention of mention m up to the answer to its first api() call
FishMention(m, answer) ==
    /\ bot = "fish"
    /\ bpc = "listening"
    /\ job' = m
    /\ IF re_fish(post_text(m.text))
       THEN LET r == api(idempotency_key, StatusesUrl, "POST", fish_reply_data(m), NoFiles,
                         FALSE, answer)
            IN  /\ Called(r)
                /\ bpc' = IF r.out # "return" THEN handler_raised(r.out)
                          ELSE IF m.reply_to = "none" THEN "fish_favourite"
                          ELSE "listening"
       ELSE IF re_iwill(post_text(m.text)) /\ m.reply_to = "me"
       THEN LET r == api(idempotency_key, FavouriteUrl, "POST", None, NoFiles, FALSE, answer)
            IN  /\ Called(r)
                /\ bpc' = IF r.out = "return" THEN "listening" ELSE handler_raised(r.out)
       ELSE UNCHANGED <<bpc, sent, lastcall>>
    /\ UNCHANGED <<streamvars, pollvars, schedvars, runvars, bot, idempotency_key>>

\* Fish.process_mention after the reply: the favourite
FishFavourite(answer) ==
    /\ bpc = "fish_favourite"
    /\ LET r == api(idempotency_key, FavouriteUrl, "POST", None, NoFiles, FALSE, answer)
       IN  /\ Called(r)
           /\ bpc' = IF r.out = "return" THEN "listening" ELSE handler_raised(r.out)
    /\ UNCHANGED <<streamvars, pollvars, schedvars, runvars, bot, idempotency_key, job>>

Mention == \E kind \in {"random", "thanks"}, i \in 1..Len(comics), a \in Replies :
               JucikaMention(kind, i, a)
PollOnce == \E a \in Replies, d \in ReqTimes : Poll(a, d)

NextBot ==
    \/ \E a \in Replies : MainInstance(a)
    \/ \E a \in Replies : MainVerify(a)
    \/ Mention
    \/ PollOnce
    \/ \E a \in Replies : PostStatus(a)
    \/ \E start \in Starts : RunBegin(start)
    \/ \E res \in {"error", "ok"}, dur \in TempsTimes : GetTemps(res, dur)
    \/ \E a \in Replies : Post(a)

SpecBot == InitBot /\ [][NextBot]_vars

\* the program fish
InitFish ==
    /\ InitCommon /\ pc = "off" /\ wire = <<>> /\ input = <<>>
    /\ NoBackoff /\ NoSchedule /\ NoRun
    /\ bot = "fish"
    /\ bpc = "start"
    /\ idempotency_key = Secret0
    /\ sent = {}
    /\ lastcall = NoApiCall
    /\ job = NoJob

NextFish ==
    \/ \E a \in Replies : MainInstance(a)
    \/ \E a \in Replies : MainVerify(a)
    \/ \E m \in FishMentions, a \in Replies : FishMention(m, a)
    \/ \E a \in Replies : FishFavourite(a)

SpecFish == InitFish /\ [][NextFish]_vars

\* backoff_attachment alone, called with one of the timeouts
InitPoll ==
    /\ InitCommon /\ pc = "off" /\ wire = <<>> /\ input = <<>>
    /\ NoProgram /\ NoSchedule /\ NoRun
    /\ bpc = "backoff"
    /\ timeout \in Timeouts
    /\ scenario \in {"any", "reference"}
    /\ elapsed = 0
    /\ wait_secs = Scale
    /\ slept = 0
    /\ polls = 0
    /\ ended = "none"

NextPoll == PollOnce

SpecPoll == InitPoll /\ [][NextPoll]_vars

-----------------------------------------------------------------------------
(* The daily scheduler of Jucika (jucika.py).  A time is a number of hours *)
(* since 1970-01-01T00:00Z.                                                *)

\* zlib.crc32 of the configured seed strings
crc32(text) == CASE text = "abc" -> 891568578
                 [] OTHER -> 1149756166

\* config.get("seed", 0): an int, or the crc32 of a string
get_seed(cfg_seed) ==
    CASE cfg_seed.kind = "absent" -> 0
      [] cfg_seed.kind = "int" -> cfg_seed.v
      [] OTHER -> crc32(cfg_seed.v)

Seeds == {NoSeed, [kind |-> "int", v |-> 7], [kind |-> "str", v |-> "abc"]}

\* random.Random(seed): the generator is a function of the seed alone; a small
\* congruential generator stands for the Mersenne Twister
seeded(s) == s % 61
advance(g) == (g * 17 + 7) % 61

swap(x, i, j) == [k \in 1..Len(x) |-> IF k = i THEN x[j] ELSE IF k = j THEN x[i] ELSE x[k]]

\* rand.shuffle(x): for i in reversed(range(1, len(x))): j = randbelow(i + 1);
\* x[i], x[j] = x[j], x[i]
RECURSIVE shuffle_from(_, _, _)
shuffle_from(x, i, g) ==
    IF i < 1 THEN x
    ELSE LET g1 == advance(g)
         IN  shuffle_from(swap(x, i + 1, (g1 % (i + 1)) + 1), i - 1, g1)

shuffle(x, s) == shuffle_from(x, Len(x) - 1, seeded(s))

\* a get_day_comic that shuffles self.config["comics"] itself
get_day_comic_inplace(cfg, cfg_seed, today) ==
    LET day == today \div 24
        s == get_seed(cfg_seed) + (day - (day % Len(cfg)))
        shuffled == shuffle(cfg, s)
    IN  [comic |-> shuffled[(day % Len(cfg)) + 1], config |-> shuffled, perm |-> shuffled]

\* a get_day_comic that takes the item after position day % len(comics)
get_day_comic_nextpos(cfg, cfg_seed, today) ==
    LET day == today \div 24
        s == get_seed(cfg_seed) + (day - (day % Len(cfg)))
        shuffled == shuffle(cfg, s)
    IN  [comic |-> shuffled[((day + 1) % Len(cfg)) + 1], config |-> cfg, perm |-> shuffled]

\* a get_day_comic that seeds the generator with the day, not with the start of
\* its run of len(comics) days
get_day_comic_dayseed(cfg, cfg_seed, today) ==
    LET day == today \div 24
        shuffled == shuffle(cfg, get_seed(cfg_seed) + day)
    IN  [comic |-> shuffled[(day % Len(cfg)) + 1], config |-> cfg, perm |-> shuffled]

\* get_day_comic(today): the comic, self.config["comics"] after the call, and
\* the shuffled copy the comic was taken from
get_day_comic(cfg, cfg_seed, today) ==
    LET copy == cfg
        day == today \div 24
        s == get_seed(cfg_seed) + (day - (day % Len(copy)))
        shuffled == shuffle(copy, s)
        pos == day % Len(copy)
    IN  [comic |-> shuffled[pos + 1], config |-> cfg, perm |-> shuffled]

InitSched ==
    /\ InitCommon /\ pc = "off" /\ wire = <<>> /\ input = <<>>
    /\ NoProgram /\ NoBackoff /\ NoRun
    /\ bpc = "sched"
    /\ comics \in {SubSeq(AllComics, 1, n) : n \in 1..Len(AllComics)}
    /\ seed \in Seeds
    /\ picked = {}

\* what is remembered of a call for hour h of day d that returned r
Picked(d, h, r) == [day |-> d, hour |-> h, comic |-> r.comic, perm |-> r.perm]

\* a call of get_day_comic at hour h of day d
GetDayComic(d, h) ==
    /\ bpc = "sched"
    /\ LET r == get_day_comic(comics, seed, d * 24 + h)
       IN  /\ comics' = r.config
           /\ picked' = picked \cup {Picked(d, h, r)}
    /\ UNCHANGED <<streamvars, botvars, pollvars, runvars, seed>>

\* Jucika.run with --dry-run at hour h of day d: comic = get_day_comic(today),
\* next_comic = get_day_comic(tomorrow), tomorrow being today plus one day
RunDry(d, h) ==
    /\ bpc = "sched"
    /\ LET today == d * 24 + h
           tomorrow == today + 24
           r1 == get_day_comic(comics, seed, today)
           r2 == get_day_comic(r1.config, seed, tomorrow)
       IN  /\ comics' = r2.config
           /\ picked' = picked \cup {Picked(d, h, r1), Picked(d + 1, h, r2)}
    /\ UNCHANGED <<streamvars, botvars, pollvars, runvars, seed>>

NextSched ==
    \/ \E d \in 0..MaxDay, h \in {0, 23} : GetDayComic(d, h)
    \/ \E d \in 0..(MaxDay - 1), h \in {0, 23} : RunDry(d, h)

SpecSched == InitSched /\ [][NextSched]_vars

-----------------------------------------------------------------------------
(* Properties *)

ListenPcs == {"connect", "streaming", "handler"}

\* a blank line: nothing but whitespace
IsBlank(l) == \A i \in 1..Len(l) : l[i] \in Whitespace

\* the for loop of stream_listen takes the next line, and it is a blank line
FinalizeStep ==
    /\ pc = "streaming"
    /\ lines # <<>>
    /\ lines' = Tail(lines)
    /\ IsBlank(Head(lines))

\* the for loop of stream_listen takes the next line
LineStep == pc = "streaming" /\ lines # <<>> /\ lines' = Tail(lines)

Field(m, k) == IF k \in DOMAIN m THEN m[k] ELSE <<"(absent)">>
Parses(m) == K_data \in DOMAIN m /\ json_loads(m[K_data]).ok

\* the handler a finalized record is to be routed to
Wants(m) ==
    IF Field(m, K_event) = V_notification /\ Parses(m)
       /\ json_loads(m[K_data]).val.kind = "dict"
       /\ json_loads(m[K_data]).val.type = "mention"
    THEN "process_mention"
    ELSE IF Field(m, K_event) = V_update /\ Parses(m) THEN "process_update"
    ELSE "none"

\* C1: a handler that raises does not end stream_listen: the step in which a
\* handler ends, by returning or by raising, leaves the connection streaming with
\* an empty pending record and the generator untouched, and once a handler has
\* raised on a connection every later record that is to be routed is still
\* handed to its handler.
C1_HandlerFailureIsolated ==
    [][ /\ (pc = "handler" /\ last'.did = "raised")
            => (pc' = "streaming" /\ message' = EmptyMessage
                /\ lines' = lines /\ buf' = buf /\ cause' = cause)
        /\ (raised /\ FinalizeStep /\ Wants(message) # "none")
            => (pc' = "handler" /\ cur'.h = Wants(message)) ]_vars

\* C1 witness: a handler is invoked after an earlier one raised on this connection
C1_Witness == raised /\ pc = "handler" /\ cause = "none"

\* C2: every end of a stream_listen call leads to the sleep, the sleep is of 30
\* seconds whatever the cause and the number of failures, the sleep is followed
\* by a new stream_listen call, a stream_listen call starts only out of the
\* sleep, and no step leaves the loop.
C2_SupervisorStructure ==
    [][ /\ (pc \in ListenPcs /\ pc' \notin ListenPcs) => pc' = "sleep"
        /\ (pc' = "sleep") => sleep_secs' = 30
        /\ (pc = "sleep") => (pc' = "connect" /\ sleep_secs' = 0)
        /\ (pc' = "connect" /\ pc # "connect") => pc = "sleep"
        /\ pc' \in ListenPcs \cup {"sleep"} ]_vars

\* C2 witness: the sleep after several consecutive failed connection attempts
C2_Witness == pc = "sleep" /\ sleep_secs = 30 /\ nfail >= 2 /\ cause = "HTTPError"

\* C3: after a read failure of a session that had dispatched events the
\* supervisor gets to a fresh connection, the process being still in the loop,
\* and on the connection that follows every record that is to be routed is
\* handed to its handler.
C3_RecoveryAfterReadFailure ==
    /\ (pc \notin ListenPcs /\ cause \in ReadFailures /\ dispatched)
          ~> (pc = "streaming" /\ buf = <<>> /\ message = EmptyMessage /\ ~dispatched)
    /\ [][ (recovered /\ FinalizeStep /\ Wants(message) # "none")
              => (pc' = "handler" /\ cur'.h = Wants(message)) ]_vars

\* C3 witness: a handler is invoked on the connection opened after the failure
C3_Witness == recovered /\ pc = "handler"

\* what the generator yields when the whole input comes as one chunk
WholeFeed == IF input = <<>> THEN <<>> ELSE iter_chunk(<<>>, input).lines

\* C4: when the generator has ended, the lines it has yielded are those it yields
\* when the whole byte sequence arrives as one chunk.
C4_ChunkBoundaryInvariance ==
    pc \in {"iter_done", "iter_raised"} => yielded = WholeFeed

\* a non-empty line that is no comment and has no separator once stripped
IsMalformed(l) ==
    /\ ~(l # <<>> /\ l[1] = COLON)
    /\ strip(l) # <<>>
    /\ \A i \in 1..(Len(strip(l)) - 1) : ~(strip(l)[i] = COLON /\ strip(l)[i + 1] = SP)

\* C5: a malformed line is ignored: the connection goes on streaming and the
\* pending record is unchanged.
C5_MalformedLineIgnored ==
    [][ (LineStep /\ IsMalformed(Head(lines)))
            => (pc' = "streaming" /\ message' = message) ]_vars

\* C6: an undecodable line never ends the connection: no stream_listen call ends
\* with the decoding error.
C6_DecodeErrorIsLocal == cause # "UnicodeDecodeError"

\* the first place of the separator in l
FirstSep(l) ==
    CHOOSE i \in 1..Len(l) :
        /\ i < Len(l) /\ l[i] = COLON /\ l[i + 1] = SP
        /\ \A j \in 1..(i - 1) : ~(l[j] = COLON /\ l[j + 1] = SP)
HasSep(l) == \E i \in 1..(Len(l) - 1) : l[i] = COLON /\ l[i + 1] = SP
KeyOf(l) == SubSeq(l, 1, FirstSep(l) - 1)
ValueOf(l) == SubSeq(l, FirstSep(l) + 2, Len(l))

\* m with key k set to v and every other key as it is
Overridden(m2, m, k, v) ==
    /\ DOMAIN m2 = DOMAIN m \cup {k}
    /\ m2[k] = v
    /\ \A x \in DOMAIN m \ {k} : m2[x] = m[x]

\* a line 'key: value' with a key and a value
IsKeyValue(l) ==
    /\ l # <<>> /\ l[1] # COLON
    /\ HasSep(l) /\ KeyOf(l) # <<>> /\ ValueOf(l) # <<>>

\* C7 as stated: the value of a field is everything after the first ': ' of the line.
C7_FrameDecodingAsStated ==
    [][ (LineStep /\ IsKeyValue(Head(lines)))
            => (pc' = "streaming"
                /\ Overridden(message', message, KeyOf(Head(lines)), ValueOf(Head(lines)))) ]_vars

\* C7: a line that, stripped of the whitespace at its ends, is 'key: value' sets
\* the key to everything after the first ': ' of the stripped line and leaves the
\* other fields alone; the blank line hands the pending record over once, to the
\* handler with the parsed data of that record, and the pending record is empty
\* when the next line is taken.
C7_FrameDecoding ==
    [][ /\ (LineStep /\ ~(Head(lines) # <<>> /\ Head(lines)[1] = COLON)
                     /\ HasSep(strip(Head(lines))))
            => (pc' = "streaming"
                /\ Overridden(message', message,
                              KeyOf(strip(Head(lines))), ValueOf(strip(Head(lines)))))
        /\ FinalizeStep
            => \/ (pc' = "streaming" /\ message' = EmptyMessage /\ cur' = NoCall)
               \/ (pc' = "handler" /\ message' = message
                   /\ cur'.data = json_loads(message[K_data]).val)
        /\ (pc = "handler" /\ pc' = "streaming") => message' = EmptyMessage
        /\ (pc = "streaming" /\ last.did \in {"dropped", "handled", "raised", "pm_raised", "none"})
            => message = EmptyMessage ]_vars

\* C7 witness: the record of a frame whose data value holds the separator is
\* with its handler
C7_Witness ==
    /\ pc = "handler" /\ cur.h = "process_update"
    /\ Field(message, K_data) = J_mention
    /\ Field(message, K_event) = V_update

\* C8: a line that starts with ':' changes nothing but the position in the
\* stream: no field, no finalization, no reset, no handler.
C8_CommentTransparent ==
    [][ (LineStep /\ Head(lines) # <<>> /\ Head(lines)[1] = COLON)
            => (pc' = "streaming" /\ message' = message /\ cur' = cur
                /\ dispatched' = dispatched /\ cause' = cause) ]_vars

\* C8 witness: a comment line has been taken in the middle of a frame
C8_Witness == pc = "streaming" /\ last.did = "comment" /\ K_event \in DOMAIN message

\* C9: a blank line starts exactly the handler the pending record is to be
\* routed to and none when there is none, and a handler starts at no other step.
C9_ExactRouting ==
    [][ /\ FinalizeStep
            => IF Wants(message) = "none"
               THEN pc' = "streaming" /\ cur' = NoCall /\ dispatched' = dispatched
               ELSE pc' = "handler" /\ cur'.h = Wants(message)
        /\ (pc' = "handler" /\ pc # "handler") => FinalizeStep
        /\ (pc = "handler" /\ pc' = "handler") => cur' = cur
        /\ (pc' # "handler") => cur' = NoCall ]_vars

\* C9 witness: a mention is with process_mention
C9_Witness ==
    /\ pc = "handler" /\ cur.h = "process_mention"
    /\ cur.data = [kind |-> "dict", type |-> "mention"]

\* a record with no event of the two kinds, or no data, or data that does not parse
NonDispatchable(m) ==
    \/ Field(m, K_event) \notin {V_notification, V_update}
    \/ K_data \notin DOMAIN m
    \/ ~json_loads(m[K_data]).ok

\* C10: a non-dispatchable record is dropped: no handler, no exception out of
\* process_message, an empty pending record, and the connection goes on.
C10_NonDispatchableDropped ==
    [][ (FinalizeStep /\ NonDispatchable(message))
            => (last'.did = "dropped" /\ pc' = "streaming" /\ cur' = NoCall
                /\ message' = EmptyMessage /\ cause' = cause) ]_vars

\* C10 witness: a record of a known kind whose data does not parse has been dropped
C10_Witness ==
    /\ pc = "streaming" /\ last.did = "dropped" /\ message = EmptyMessage
    /\ Field(last.rec, K_event) = V_update
    /\ K_data \in DOMAIN last.rec /\ ~json_loads(last.rec[K_data]).ok

\* C11: a handler starts only in the step that finalizes its frame and only when
\* no handler is in progress, and while a handler is in progress no line is
\* taken from the stream and no record is finalized: the invocations follow the
\* order of the frames and never overlap.
C11_DispatchOrder ==
    [][ /\ (cur' # cur /\ cur' # NoCall)
            => (FinalizeStep /\ cur = NoCall /\ last'.rec = message
                /\ cur'.h = Wants(message))
        /\ (cur # NoCall)
            => (pc = "handler" /\ lines' = lines /\ buf' = buf
                /\ message' \in {message, EmptyMessage} /\ cur' \in {cur, NoCall})
        /\ (cur' # NoCall) => pc' = "handler" ]_vars

\* C11 witness: the remote has written the next line and the handler of the
\* frame before it is still in progress
C11_Witness == pc = "handler" /\ cur # NoCall /\ wire # <<>> /\ lines = <<>>

\* C12: no error ends the process: an exception never leaves main or run.
C12_NoErrorEndsProcess == bpc # "crashed"

SameTriple(r1, r2) == r1.url = r2.url /\ r1.method = r2.method /\ r1.data = r2.data

\* C13: any two requests api() has sent for the same (url, method, body) carry
\* the same Idempotency-Key, whatever was sent between them and whatever the
\* files and get_result of the two calls.
C13_SameTripleSameKey ==
    \A r1, r2 \in sent : SameTriple(r1, r2) => r1.key = r2.key

\* C13 witness: after the two calls of main and at least two more, api() is
\* called with arguments it was called with before
C13_Witness == lastcall.again /\ lastcall.n = 1 /\ Cardinality(sent) >= 4

\* C14: once api() has been called, the value of idempotency_key does not change.
C14_SecretReadOnly == [][sent # {} => idempotency_key' = idempotency_key]_vars

\* C15: attachments are outside the key: two requests with the same url, method
\* and body carry the same Idempotency-Key when their files differ, and so do
\* any two media uploads of post_comic whose comics have the same description
\* (or none), whatever their images.
C15_FilesOutsideKey ==
    /\ \A r1, r2 \in sent : (SameTriple(r1, r2) /\ r1.files # r2.files) => r1.key = r2.key
    /\ \A r1, r2 \in sent : (r1.url = MediaUrl /\ r2.url = MediaUrl /\ r1.body = r2.body)
                                => r1.key = r2.key

\* C15 witness: post_comic has uploaded two different images without a
\* description, and the two uploads carry one key
C15_Witness ==
    \E r1, r2 \in sent : /\ r1.url = MediaUrl /\ r2.url = MediaUrl
                         /\ r1.files # r2.files /\ r1.body = r2.body /\ r1.key = r2.key

C17_ReferenceScenario ==
    scenario = "reference" =>
        /\ timeout = 300 => /\ ended \in {"none", "returned"}
                            /\ polls <= 10
                            /\ polls = 10 => ended = "returned"
        /\ timeout = 200 => /\ ended \in {"none", "TimeoutError"}
                            /\ polls <= 9
                            /\ polls = 9 => ended = "TimeoutError"

\* C17 witness: the call with timeout 300 has returned, on the poll that follows
\* the one made after 200 s
C17_Witness ==
    /\ scenario = "reference" /\ timeout = 300 /\ ended = "returned"
    /\ elapsed - slept > 200 * Scale

\* C18: backoff_attachment ends in one of two ways only: it returns on an answer
\* of 200 that comes before the elapsed time has exceeded timeout, or it raises
\* TimeoutError once the elapsed time has exceeded timeout; an answer other
\* than 200 never ends it with another error.
C18_TwoWaysOut ==
    /\ ended \in {"none", "returned", "TimeoutError"}
    /\ ended = "returned" => (lastcall.status = 200 /\ elapsed <= timeout * Scale)
    /\ ended = "TimeoutError" => (lastcall.status # 200 /\ elapsed > timeout * Scale)

RECURSIVE Pow(_, _)
Pow(b, k) == IF k = 0 THEN 1 ELSE b * Pow(b, k - 1)

\* C19: the wait before the k-th poll is 1.75^(k-1) seconds, whatever the
\* answers and the time the requests take; every poll is one request, made after
\* its wait; and the call does not end before its first poll, whatever its
\* timeout.
C19_BackoffSchedule ==
    /\ [](polls >= 1 => slept = (Scale \div Pow(4, polls - 1)) * Pow(7, polls - 1))
    /\ [](ended # "none" => polls >= 1)
    /\ [][polls' # polls => /\ polls' = polls + 1
                            /\ lastcall'.n = 1
                            /\ slept' = wait_secs
                            /\ elapsed' >= elapsed + slept']_vars

\* C19 witness: a call with timeout 0 has made its first poll after a wait of
\* one second and has ended
C19_Witness == timeout = 0 /\ polls = 1 /\ slept = Scale /\ ended = "TimeoutError"

\* C20: every call of get_day_comic for one day returns the same comic, whatever
\* calls came before it and whatever the hour of the day, and no call changes
\* the configured list of comics.
C20_SchedulerIsPure ==
    /\ [](\A p, q \in picked : p.day = q.day => p.comic = q.comic)
    /\ [][comics' = comics]_vars

\* C20 witness: get_day_comic has been called at two hours of one day, after a
\* call for another day that returned another comic
C20_Witness ==
    \E p, q, o \in picked : /\ p.day = q.day /\ p.hour # q.hour /\ p.comic = q.comic
                            /\ o.day # p.day /\ o.comic # p.comic

\* the first day of the run of len(comics) days that day d belongs to
BucketStart(d) == d - (d % Len(comics))

\* C21: every selection for a day d is the item at position d mod n of the
\* configured list shuffled under the seed base_seed + (d - d mod n), so the
\* selections of two days of one run of n days come from the same permutation;
\* and run selects for today and for tomorrow by two calls, for d and d + 1.
C21_BucketRule ==
    /\ [](\A p \in picked :
            /\ p.perm = shuffle(comics, get_seed(seed) + BucketStart(p.day))
            /\ p.comic = p.perm[(p.day % Len(comics)) + 1])
    /\ [](\A p, q \in picked : BucketStart(p.day) = BucketStart(q.day) => p.perm = q.perm)
    /\ [][LET new == picked' \ picked
          IN  /\ Cardinality(new) <= 2
              /\ Cardinality(new) = 2 =>
                     \E p, q \in new : q.day = p.day + 1 /\ q.hour = p.hour]_vars

\* C21 witness: the selections for a day and for the day after it come from
\* two different permutations
C21_Witness ==
    \E p, q \in picked : /\ q.day = p.day + 1 /\ q.hour = p.hour
                         /\ BucketStart(p.day) # BucketStart(q.day)
                         /\ p.perm # q.perm

\* C22: every stream_listen call that gets its stream starts with an empty
\* reassembler buffer, no decoded line and an empty pending record, whatever
\* the call before it left behind.
C22_FreshStatePerConnection ==
    [][(pc = "connect" /\ pc' = "streaming")
           => (buf' = <<>> /\ lines' = <<>> /\ message' = EmptyMessage)]_vars

\* C22 witness: the stream has been opened again after a call that ended with
\* fields of an unfinished frame pending, and nothing of them is left
C22_Witness ==
    /\ pc = "streaming" /\ last.did = "none" /\ last.rec # EmptyMessage
    /\ message = EmptyMessage /\ buf = <<>> /\ lines = <<>>

\* the selections made so far for the run of len(comics) days that starts at b
InBucket(b) == {p \in picked : BucketStart(p.day) = b}

\* C23: the selections for two different days of one run of n days differ, and
\* once every day of the run has been selected for, the selections are exactly
\* the configured comics.
C23_EveryComicOncePerBucket ==
    /\ \A p, q \in picked :
           (BucketStart(p.day) = BucketStart(q.day) /\ p.day # q.day) => p.comic # q.comic
    /\ \A p \in picked :
           LET b == BucketStart(p.day)
           IN  {q.day : q \in InBucket(b)} = b..(b + Len(comics) - 1)
                   => {q.comic : q \in InBucket(b)} = {comics[i] : i \in 1..Len(comics)}

\* C23 witness: three comics are configured and every day of a run of three
\* days has been selected for
C23_Witness ==
    /\ Len(comics) = 3
    /\ \E p \in picked : {q.day : q \in InBucket(BucketStart(p.day))} = 0..2

\* C24: run calls post at most once, and only after get_temps has returned in
\* this run and not before 8:47 of the target day; a get_temps that raises is
\* tried again 100 seconds after it raised; and the first test of the time made
\* after 8:48 makes run return without a post.
C24_PostOnceAtTheMinute ==
    /\ [](posted <= 1)
    /\ [][posted' # posted => (posted = 0 /\ posted' = 1 /\ temps /\ clock >= T847)]_vars
    /\ [][(bpc = "temps" /\ bpc' = "temps" /\ clock' # clock)
             => (clock <= T848 /\ \E dur \in TempsTimes : clock' = clock + dur + 100)]_vars
    /\ [][(bpc = "temps" /\ clock > T848) => (bpc' = "returned" /\ posted' = posted)]_vars
    /\ [][(bpc = "temps" /\ clock <= T848) => bpc' # "returned"]_vars
    /\ [](~temps => posted = 0)

\* C24 witness: get_temps raised until a test of the time came after 8:48, and
\* run returned without a post
C24_Witness == bpc = "returned" /\ ~temps /\ posted = 0 /\ clock > T848

\* C25: jucika started with --daily never enters the loop of main that opens
\* the stream.
C25_DailyDoesNotListen == daily => bpc \notin {"listening", "backoff", "post_status"}

\* the visibility a request asks for
Visibility(req) ==
    LET at == {i \in 1..Len(req.data.items) : req.data.items[i][1] = <<"visibility">>}
    IN  req.data.items[CHOOSE i \in at : TRUE][2][1]

\* C26: for a mention whose text is "fish", process_mention first posts the
\* reply, with visibility unlisted for a public mention and the visibility of
\* the mention otherwise, hence never public; it goes on to the favourite if
\* and only if the reply call returned and the mention is not a reply; and the
\* favourite follows a reply call that returned.
C26_FishReplyProtocol ==
    [][bot = "fish" =>
        /\ (bpc = "listening" /\ re_fish(post_text(job'.text))) =>
               /\ lastcall'.req.url = StatusesUrl
               /\ Visibility(lastcall'.req) =
                      (IF job'.visibility = "public" THEN "unlisted" ELSE job'.visibility)
               /\ Visibility(lastcall'.req) # "public"
               /\ bpc' \in {"listening", "fish_favourite"}
               /\ bpc' = "fish_favourite" <=>
                      (lastcall'.out = "return" /\ job'.reply_to = "none")
        /\ bpc = "fish_favourite" =>
               /\ lastcall.req.url = StatusesUrl /\ lastcall.out = "return"
               /\ job.reply_to = "none" /\ re_fish(post_text(job.text))
               /\ lastcall'.req.url = FavouriteUrl
               /\ bpc' = "listening"]_vars

\* C26 witness: a public mention "fish" that is no reply has been answered with
\* an unlisted reply and then made a favourite
C26_Witness ==
    /\ bot = "fish" /\ bpc = "listening" /\ job \in FishMentions
    /\ re_fish(post_text(job.text)) /\ job.visibility = "public" /\ job.reply_to = "none"
    /\ lastcall.req.url = FavouriteUrl /\ lastcall.out = "return"
    /\ \E r \in sent : r.url = StatusesUrl /\ Visibility(r) = "unlisted"

====
